---- MODULE Spec2Model ----
(***************************************************************************)
(* MilvusLTM (omagent_core/memories/ltms/ltm_milvus.py): a key-value store *)
(* whose records carry a pickled, base64-encoded payload and an embedding, *)
(* kept in one Milvus collection that is created on demand.                *)
(*                                                                         *)
(* The state is what the backend holds for storage_name (whether the       *)
(* collection exists, and its records) plus a log of the last call a       *)
(* single caller made: its arguments, its outcome and the store as it was  *)
(* when the call began.  Every handler of the class is an operator that    *)
(* maps the store to the store after the call and the call's outcome; the  *)
(* actions apply the handlers to inputs drawn from small sets.             *)
(*                                                                         *)
(* The backend is the MilvusClient behind self.milvus_ltm_client._client.  *)
(* It is modelled at the calls the class makes: has_collection,            *)
(* create_collection, query, insert, delete.  A query or delete against a  *)
(* collection that does not exist raises MilvusException; insert checks    *)
(* the row against the schema declared in _create_collection and does not  *)
(* look for an earlier row with the same primary key.  Calls of one caller *)
(* take effect in order: a query sees every insert and delete that         *)
(* returned before it.  The key strings carry no double quote and no       *)
(* backslash, so the filter 'key == "<key_str>"' selects exactly the rows  *)
(* whose key field is key_str; the empty string is a key like any other.   *)
(*                                                                         *)
(* Three further specifications look at parts of the class: SpecRead at    *)
(* the scans and the similarity search, SpecConc at two callers assigning  *)
(* at once, SpecFail at one caller over a backend whose calls can fail.    *)
(* The last two run the handlers one backend call at a time.  There each   *)
(* backend call is atomic; create_collection for a collection that exists  *)
(* already is accepted or rejected, as the backend chooses; a backend call *)
(* that fails leaves the store as it was.                                  *)
(***************************************************************************)
EXTENDS Integers, Sequences, FiniteSets, TLC

\* Bounds of the model.
Dim == 2
MaxPairs == 2

\* Schema limits declared in _create_collection.
KeyMaxLength == 256
ValueMaxLength == 65535

\* Declared defaults of get_by_vector (top_k, threshold) and keys (limit).
DefaultTopK == 10
DefaultThreshold == 0
DefaultLimit == 10

\* exists:  has_collection(storage_name), the collection of this store exists
\* records: the rows of the collection, each with key, value and embedding
\* written: some __setitem__ has returned without raising (history)
\* last:    the caller's last call: arguments, outcome, and the store before it
\* pc:      "idle", or "update" while update is in its loop
\* todo:    the pairs update has still to assign
\* run:     for each caller of the step-by-step view, the call it is in: where
\*          the handler stands and the backend calls it has issued so far
\* landed:  the row of the last insert the backend accepted (history)
VARIABLES exists, records, written, last, pc, todo, run, landed

vars == <<exists, records, written, last, pc, todo, run, landed>>

(***************************************************************************)
(* Values of the caller.                                                   *)
(***************************************************************************)

\* Python's None, among the values a caller passes and gets back.
NoneVal == "None"

\* Keys as the caller passes them: an int or a str.
IntKey(i) == [t |-> "int", n |-> i, s |-> ""]
StrKey(x) == [t |-> "str", n |-> 0, s |-> x]

Keys == {IntKey(1), StrKey("1"), StrKey(""), StrKey("b")}

\* str(key): the decimal text of an int, a str as it is.
Str(key) == IF key.t = "int" THEN (IF key.n = 0 THEN "0" ELSE "1") ELSE key.s

\* Payloads: two picklable values, one whose encoding is longer than the
\* value field allows, and one that pickle.dumps rejects.
Payloads == {"p", "q"}
BigPayload == "big"
Unpicklable == "lambda"

\* Embeddings: the unit vectors of length Dim, and one vector too short.
Unit(i) == [j \in 1..Dim |-> IF j = i THEN 1 ELSE 0]
Embeddings == {Unit(1), Unit(2)}
ShortEmbedding == [j \in 1..(Dim - 1) |-> 1]

\* Query vectors of get_by_vector: unit vectors and the opposite of one.
Neg(v) == [j \in 1..Len(v) |-> 0 - v[j]]
QueryVectors == {Unit(1), Unit(2), Neg(Unit(1))}

\* The value argument of __setitem__: a dict with 'value' and 'embedding'
\* (the embedding possibly None), or anything else.
DictValue(p, e) == [isDict |-> TRUE, value |-> p, embNone |-> FALSE, embedding |-> e]
DictNoEmbedding(p) == [isDict |-> TRUE, value |-> p, embNone |-> TRUE, embedding |-> <<>>]
NotADict == [isDict |-> FALSE, value |-> NoneVal, embNone |-> TRUE, embedding |-> <<>>]

Values ==
    {DictValue(p, e) : p \in Payloads, e \in Embeddings \cup {ShortEmbedding}}
        \cup {DictValue(BigPayload, Unit(1)), DictValue(Unpicklable, Unit(1))}
        \cup {DictNoEmbedding(p) : p \in Payloads}
        \cup {NotADict}

(***************************************************************************)
(* Serialization: pickle.dumps then base64.b64encode on write,             *)
(* base64.b64decode then pickle.loads on read.                             *)
(***************************************************************************)

PickleDumps(v) == <<"pickle", v>>
PickleLoads(b) == IF b[1] = "pickle" THEN b[2] ELSE "UnpicklingError"
B64Encode(b) == <<"b64", b>>
B64DecodeSkipped(s) == s
B64Decode(s) == IF s[1] = "b64" THEN s[2] ELSE <<"binascii.Error">>

\* The payload of a stored row, or the error its decoding raises.
Decoded(r) ==
    LET v == PickleLoads(B64Decode(r.value))
    IN  IF v = "UnpicklingError" THEN [out |-> "UnpicklingError", ret |-> "None"]
                                 ELSE [out |-> "ok", ret |-> v]

\* len() of the base64 text of a payload, as the schema limit sees it.
EncodedLen(p) == IF p = BigPayload THEN ValueMaxLength + 1 ELSE 24

\* len() of a key string.
KeyLen(ks) == IF ks = "" THEN 0 ELSE 1

(***************************************************************************)
(* The backend calls.                                                      *)
(***************************************************************************)

\* The filters the class builds: key == "<key_str>", key != "", and the empty
\* filter of keys(), which selects every row.
KeyEq(ks) == [cmp |-> "==", lit |-> ks]
KeyNotEmpty == [cmp |-> "!=", lit |-> ""]
NoFilter == [cmp |-> "", lit |-> ""]

Matches(f, r) ==
    IF f.cmp = "==" THEN r.key = f.lit
    ELSE IF f.cmp = "!=" THEN r.key # f.lit
    ELSE TRUE

\* query(storage_name, filter): the matching rows.
Query(ex, recs, f) ==
    IF ex THEN [out |-> "ok", rows |-> {r \in recs : Matches(f, r)}]
          ELSE [out |-> "MilvusException", rows |-> {}]

\* delete(storage_name, filter): the matching rows are removed.
Delete(ex, recs, f) ==
    IF ex THEN [out |-> "ok", records |-> {r \in recs : ~Matches(f, r)}]
          ELSE [out |-> "MilvusException", records |-> recs]

\* Whether a row fits the declared schema.
FitsSchema(row, plen) ==
    /\ KeyLen(row.key) <= KeyMaxLength
    /\ plen <= ValueMaxLength
    /\ Len(row.embedding) = Dim

\* insert(collection_name, data): the row is added when it fits the schema.
Insert(ex, recs, row, plen) ==
    IF ex /\ FitsSchema(row, plen)
        THEN [out |-> "ok", records |-> recs \cup {row}]
        ELSE [out |-> "MilvusException", records |-> recs]

\* The COSINE score of a stored embedding against a query vector.  Every
\* embedding and query vector of the model has length 1, so the cosine is the
\* dot product: 1, 0 or -1.
RECURSIVE DotUpTo(_, _, _)
DotUpTo(a, q, n) == IF n = 0 THEN 0 ELSE a[n] * q[n] + DotUpTo(a, q, n - 1)
Score(a, q) == DotUpTo(a, q, Len(q))

\* The orders in which the rows of a set can be listed.
RECURSIVE Orderings(_)
Orderings(S) ==
    IF S = {} THEN {<<>>}
    ELSE UNION {{<<x>> \o t : t \in Orderings(S \ {x})} : x \in S}

Min(a, b) == IF a <= b THEN a ELSE b

\* query(storage_name, filter) as the list it returns: the matching rows in
\* an order of the backend's choosing.
QueryList(ex, recs, f) ==
    IF ex THEN [out |-> "ok", lists |-> Orderings({r \in recs : Matches(f, r)})]
          ELSE [out |-> "MilvusException", lists |-> {<<>>}]

\* query(storage_name, filter, limit=n): at most n of the matching rows.
QueryLimit(ex, recs, f, n) ==
    LET res == QueryList(ex, recs, f)
    IN  [out |-> res.out, lists |-> {SubSeq(o, 1, Min(n, Len(o))) : o \in res.lists}]

\* _client.load(refresh=True), called by values() alone: the call returns, or
\* the client object has no such method.
ClientLoad == {"ok", "AttributeError"}

\* search(storage_name, data=[q], limit=k): the k best rows, best first (rows
\* of equal score in any order), each with its distance.
Search(ex, recs, q, k) ==
    IF ~ex THEN [out |-> "MilvusException", hits |-> {<<>>}]
    ELSE [out |-> "ok",
          hits |-> {[i \in 1..Min(k, Len(o)) |->
                        [entity |-> o[i], distance |-> Score(o[i].embedding, q)]] :
                    o \in {x \in Orderings(recs) :
                              \A i \in 1..(Len(x) - 1) :
                                  Score(x[i].embedding, q) >= Score(x[i + 1].embedding, q)}}]

(***************************************************************************)
(* The handlers.                                                           *)
(***************************************************************************)

\* _create_collection: afterwards the collection exists.
CreateCollection(ex) == IF ~ex THEN TRUE ELSE ex

\* __contains__
Contains(ex, recs, ks) ==
    LET res == Query(ex, recs, KeyEq(ks))
    IN  [out |-> res.out, flag |-> Cardinality(res.rows) > 0]

\* __delitem__ deleting with the filter of clear instead of the key's.
DelItemWrongFilter(ex, recs, ks) ==
    LET c == Contains(ex, recs, ks)
    IN  IF c.out # "ok" THEN [out |-> c.out, records |-> recs]
        ELSE IF c.flag THEN Delete(ex, recs, KeyNotEmpty)
        ELSE [out |-> "KeyError", records |-> recs]

\* __delitem__
DelItem(ex, recs, ks) ==
    LET c == Contains(ex, recs, ks)
    IN  IF c.out # "ok" THEN [out |-> c.out, records |-> recs]
        ELSE IF c.flag THEN Delete(ex, recs, KeyEq(ks))
        ELSE [out |-> "KeyError", records |-> recs]

\* __getitem__: the outcomes the call can have (res[0] is any matching row
\* when the query returns several).
GetItem(ex, recs, ks) ==
    LET res == Query(ex, recs, KeyEq(ks))
    IN  IF res.out # "ok" THEN {[out |-> res.out, ret |-> NoneVal]}
        ELSE IF res.rows # {}
            THEN {Decoded(r) : r \in res.rows}
        ELSE {[out |-> "KeyError", ret |-> NoneVal]}

\* __setitem__ without the look for an earlier record of the key.
SetItemNoDelete(ex, recs, key, value) ==
    LET ex1 == CreateCollection(ex)
        ks == Str(key)
        row == [key |-> ks, value |-> B64Encode(PickleDumps(value.value)),
                embedding |-> value.embedding]
        ins == Insert(ex1, recs, row, EncodedLen(value.value))
    IN  IF ~value.isDict
            THEN [out |-> "ValueError", exists |-> ex1, records |-> recs]
        ELSE IF value.value = Unpicklable
            THEN [out |-> "PicklingError", exists |-> ex1, records |-> recs]
        ELSE IF value.embNone
            THEN [out |-> "ValueError", exists |-> ex1, records |-> recs]
        ELSE [out |-> ins.out, exists |-> ex1, records |-> ins.records]

\* __setitem__
SetItem(ex, recs, key, value) ==
    LET ex1 == CreateCollection(ex)
        ks == Str(key)
        c == Contains(ex1, recs, ks)
        del == IF c.out = "ok" /\ c.flag
                   THEN DelItem(ex1, recs, ks)
                   ELSE [out |-> c.out, records |-> recs]
        row == [key |-> ks, value |-> B64Encode(PickleDumps(value.value)),
                embedding |-> value.embedding]
        ins == Insert(ex1, del.records, row, EncodedLen(value.value))
    IN  IF ~value.isDict
            THEN [out |-> "ValueError", exists |-> ex1, records |-> recs]
        ELSE IF value.value = Unpicklable
            THEN [out |-> "PicklingError", exists |-> ex1, records |-> recs]
        ELSE IF value.embNone
            THEN [out |-> "ValueError", exists |-> ex1, records |-> recs]
        ELSE IF del.out # "ok"
            THEN [out |-> del.out, exists |-> ex1, records |-> del.records]
        ELSE [out |-> ins.out, exists |-> ex1, records |-> ins.records]

\* get: __getitem__, with KeyError turned into the default.
GetOrDefault(ex, recs, ks, default) ==
    {IF g.out = "KeyError" THEN [out |-> "ok", ret |-> default] ELSE g :
        g \in GetItem(ex, recs, ks)}

\* __len__
LenItems(ex, recs) ==
    LET res == Query(ex, recs, KeyNotEmpty)
    IN  [out |-> res.out, n |-> Cardinality(res.rows)]

\* clear
ClearAll(ex, recs) == Delete(ex, recs, KeyNotEmpty)

\* The except clause of pop.
PopKeyError(recs, default) ==
    IF default # NoneVal THEN [out |-> "ok", ret |-> default, records |-> recs]
                         ELSE [out |-> "KeyError", ret |-> NoneVal, records |-> recs]

\* pop: the outcomes the call can have.
Pop(ex, recs, ks, default) ==
    {IF g.out = "ok"
        THEN LET d == DelItem(ex, recs, ks)
             IN  IF d.out = "ok" THEN [out |-> "ok", ret |-> g.ret, records |-> d.records]
                 ELSE IF d.out = "KeyError" THEN PopKeyError(d.records, default)
                 ELSE [out |-> d.out, ret |-> NoneVal, records |-> d.records]
     ELSE IF g.out = "KeyError" THEN PopKeyError(recs, default)
     ELSE [out |-> g.out, ret |-> NoneVal, records |-> recs] :
        g \in GetItem(ex, recs, ks)}

\* The loop of get_by_vector over results[0]: every match is decoded, and
\* kept when its distance is at least the threshold.
Kept(hits, threshold) ==
    LET items == [i \in 1..Len(hits) |->
                     [key |-> hits[i].entity.key, value |-> Decoded(hits[i].entity).ret,
                      distance |-> hits[i].distance]]
    IN  SelectSeq(items, LAMBDA m : m.distance >= threshold)

\* get_by_vector: the outcomes the call can have.
GetByVector(ex, recs, q, k, threshold) ==
    LET res == Search(ex, recs, q, k)
    IN  IF res.out # "ok" THEN {[out |-> res.out, seq |-> <<>>]}
        ELSE {IF \E i \in 1..Len(h) : Decoded(h[i].entity).out # "ok"
                 THEN [out |-> "UnpicklingError", seq |-> <<>>]
                 ELSE [out |-> "ok", seq |-> Kept(h, threshold)] :
              h \in res.hits}

\* A generator object over a list, and one traversal of it (for ... in gen):
\* the traversal yields what is left and leaves the generator exhausted.
Generator(items) == [buf |-> items]
Traverse(gen) == [items |-> gen.buf, gen |-> Generator(<<>>)]

\* keys: the query runs in the call; the result is a generator expression.
KeysOf(ex, recs, limit) ==
    LET res == QueryLimit(ex, recs, NoFilter, limit)
    IN  IF res.out # "ok" THEN {[out |-> res.out, gen |-> Generator(<<>>)]}
        ELSE {[out |-> "ok", gen |-> Generator([i \in 1..Len(l) |-> l[i].key])] :
              l \in res.lists}

\* The decoded payloads of a list of rows, or the error decoding raises.
DecodedList(l, withKey) ==
    IF \E i \in 1..Len(l) : Decoded(l[i]).out # "ok"
        THEN [out |-> "UnpicklingError", gen |-> Generator(<<>>)]
        ELSE [out |-> "ok",
              gen |-> Generator([i \in 1..Len(l) |->
                          IF withKey THEN <<l[i].key, Decoded(l[i]).ret>>
                                     ELSE <<Decoded(l[i]).ret>>])]

\* values: a generator function; load and the query run when it is traversed.
ValuesOf(ex, recs) ==
    LET res == QueryList(ex, recs, KeyNotEmpty)
    IN  {[out |-> "AttributeError", gen |-> Generator(<<>>)] : x \in ClientLoad \ {"ok"}}
        \cup (IF res.out # "ok" THEN {[out |-> res.out, gen |-> Generator(<<>>)]}
              ELSE {DecodedList(l, FALSE) : l \in res.lists})

\* items: a generator function; the query runs when it is traversed.
ItemsOf(ex, recs) ==
    LET res == QueryList(ex, recs, KeyNotEmpty)
    IN  IF res.out # "ok" THEN {[out |-> res.out, gen |-> Generator(<<>>)]}
        ELSE {DecodedList(l, TRUE) : l \in res.lists}

(***************************************************************************)
(* The caller: one call at a time; update runs its loop to the end before  *)
(* the next call starts.                                                   *)
(***************************************************************************)

\* The default argument of get and pop: the declared default None when the
\* caller passes none.
Defaults == {<<FALSE, NoneVal>>, <<TRUE, NoneVal>>, <<TRUE, "d">>}
Effective(da) == IF da[1] THEN da[2] ELSE NoneVal

\* The pairs update is called with.
UpdatePairs ==
    {[key |-> StrKey("1"), val |-> DictValue("p", Unit(1))],
     [key |-> StrKey("b"), val |-> DictValue("q", Unit(2))],
     [key |-> StrKey("b"), val |-> DictValue("p", ShortEmbedding)],
     [key |-> StrKey("1"), val |-> DictNoEmbedding("q")]}

RECURSIVE SeqsUpTo(_, _)
SeqsUpTo(S, n) ==
    IF n = 0 THEN {<<>>}
    ELSE LET shorter == SeqsUpTo(S, n - 1)
         IN  shorter \cup {Append(q, x) : q \in {y \in shorter : Len(y) = n - 1}, x \in S}

(***************************************************************************)
(* The handlers step by step: a call stands at the backend call it is      *)
(* about to issue.  This is the view in which two callers interleave and   *)
(* in which a single backend call can fail.                                *)
(***************************************************************************)

Callers == {1, 2}

\* A caller's call: the handler (op), its arguments, the pairs update has
\* still to assign (rest), the backend call it stands at (pc), the backend
\* calls issued so far with their outcomes (log), the exception raised inside
\* the handler if any (raised), the payload __getitem__ returned to pop (got)
\* and, once pc is "done", what the caller gets.
Idle ==
    [op |-> "none", key |-> "", val |-> NotADict, dflt |-> NoneVal, q |-> <<>>,
     rest |-> <<>>, pc |-> "idle", log |-> <<>>, raised |-> "none", got |-> NoneVal,
     out |-> "ok", ret |-> NoneVal, flag |-> FALSE, n |-> 0, seq |-> <<>>]

\* The first backend call of each handler.
Entry(op) ==
    CASE op \in {"set", "update"} -> "has"
      [] op \in {"get", "getOrDefault", "pop"} -> "getitem"
      [] op = "delete" -> "del_in"
      [] op = "values" -> "load"
      [] OTHER -> op

\* The method of the client called at each position.
BackendCallAt(l) ==
    CASE l = "has" -> "has_collection"
      [] l = "create" -> "create_collection"
      [] l \in {"delete", "clear"} -> "delete"
      [] l = "insert" -> "insert"
      [] l = "load" -> "load"
      [] l = "search" -> "search"
      [] OTHER -> "query"

CallLabels ==
    {"has", "create", "set_in", "del_in", "delete", "insert", "getitem", "contains",
     "len", "clear", "keys", "load", "values", "items", "search"}

\* The row __setitem__ inserts.
RowOf(ks, value) ==
    [key |-> ks, value |-> B64Encode(PickleDumps(value.value)), embedding |-> value.embedding]

\* create_collection(storage_name, ...): the collection is created; when it
\* is there already (created by someone else since has_collection answered)
\* the backend either accepts the call or rejects it.
CreateCall(ex) ==
    IF ~ex THEN {[out |-> "ok", exists |-> TRUE]}
           ELSE {[out |-> "ok", exists |-> ex], [out |-> "MilvusException", exists |-> ex]}

\* What the backend call at f.pc does to the store and answers: out, the
\* store afterwards, whether anything was found (found), the rows of a query
\* (rows) and the list a scan or search is built from (seq).
Answer(o, ex, recs, found, rows, seq) ==
    [out |-> o, exists |-> ex, records |-> recs, found |-> found, rows |-> rows, seq |-> seq]

Backend(f, ex, recs) ==
    CASE f.pc = "has" -> {Answer("ok", ex, recs, ex, {}, <<>>)}
      [] f.pc = "create" ->
            {Answer(c.out, c.exists, recs, TRUE, {}, <<>>) : c \in CreateCall(ex)}
      [] f.pc \in {"set_in", "del_in", "getitem", "contains"} ->
            LET r == Query(ex, recs, KeyEq(f.key))
            IN  {Answer(r.out, ex, recs, r.rows # {}, r.rows, <<>>)}
      [] f.pc = "len" ->
            LET r == Query(ex, recs, KeyNotEmpty)
            IN  {Answer(r.out, ex, recs, r.rows # {}, r.rows, <<>>)}
      [] f.pc = "delete" ->
            LET d == Delete(ex, recs, KeyEq(f.key))
            IN  {Answer(d.out, ex, d.records, TRUE, {}, <<>>)}
      [] f.pc = "clear" ->
            LET d == ClearAll(ex, recs)
            IN  {Answer(d.out, ex, d.records, TRUE, {}, <<>>)}
      [] f.pc = "insert" ->
            LET i == Insert(ex, recs, RowOf(f.key, f.val), EncodedLen(f.val.value))
            IN  {Answer(i.out, ex, i.records, TRUE, {}, <<>>)}
      [] f.pc = "load" -> {Answer(o, ex, recs, TRUE, {}, <<>>) : o \in ClientLoad}
      [] f.pc = "keys" ->
            {Answer(g.out, ex, recs, TRUE, {}, g.gen.buf) :
                g \in KeysOf(ex, recs, DefaultLimit)}
      [] f.pc = "values" ->
            LET r == QueryList(ex, recs, KeyNotEmpty)
            IN  {Answer(IF r.out = "ok" THEN DecodedList(l, FALSE).out ELSE r.out,
                        ex, recs, TRUE, {}, DecodedList(l, FALSE).gen.buf) : l \in r.lists}
      [] f.pc = "items" ->
            {Answer(g.out, ex, recs, TRUE, {}, g.gen.buf) : g \in ItemsOf(ex, recs)}
      [] f.pc = "search" ->
            {Answer(g.out, ex, recs, TRUE, {}, g.seq) :
                g \in GetByVector(ex, recs, f.q, DefaultTopK, DefaultThreshold)}

\* An except clause that takes every exception.
CatchesAny(op, exc) == op \in {"getOrDefault", "pop"}

\* The except clauses of the class: except KeyError, in get and in pop.
Catches(op, exc) == op \in {"getOrDefault", "pop"} /\ exc = "KeyError"

\* return: the call is over.
Return(f) == [f EXCEPT !.pc = "done", !.out = "ok"]

\* An exception raised inside the handler: caught by the handler's except
\* clause (get returns the default, pop returns it unless it is None and
\* re-raises otherwise) or passed to the caller.
Raise(f, exc) ==
    LET g == [f EXCEPT !.raised = exc, !.pc = "done"]
    IN  IF Catches(f.op, exc) /\ (f.op = "getOrDefault" \/ f.dflt # NoneVal)
            THEN [g EXCEPT !.out = "ok", !.ret = f.dflt]
            ELSE [g EXCEPT !.out = exc]

\* __setitem__ between _create_collection and the look for the key.
Validate(f) ==
    IF ~f.val.isDict THEN Raise(f, "ValueError")
    ELSE IF f.val.value = Unpicklable THEN Raise(f, "PicklingError")
    ELSE IF f.val.embNone THEN Raise(f, "ValueError")
    ELSE [f EXCEPT !.pc = "set_in"]

\* The handler from the answer of its backend call to its next backend
\* call, its return or its exception: the ways it can go on.
After(f, b) ==
    IF b.out # "ok" THEN {Raise(f, b.out)}
    ELSE CASE f.pc = "has" -> {IF b.found THEN Validate(f) ELSE [f EXCEPT !.pc = "create"]}
           [] f.pc = "create" -> {Validate(f)}
           [] f.pc = "set_in" -> {[f EXCEPT !.pc = IF b.found THEN "del_in" ELSE "insert"]}
           [] f.pc = "del_in" ->
                {IF b.found THEN [f EXCEPT !.pc = "delete"] ELSE Raise(f, "KeyError")}
           [] f.pc = "delete" ->
                {IF f.op \in {"set", "update"} THEN [f EXCEPT !.pc = "insert"]
                 ELSE IF f.op = "pop" THEN [Return(f) EXCEPT !.ret = f.got]
                 ELSE Return(f)}
           [] f.pc = "insert" ->
                {IF f.rest = <<>> THEN Return(f)
                 ELSE [f EXCEPT !.key = Str(Head(f.rest).key), !.val = Head(f.rest).val,
                                !.rest = Tail(f.rest), !.pc = "has"]}
           [] f.pc = "getitem" ->
                IF ~b.found THEN {Raise(f, "KeyError")}
                ELSE {IF Decoded(r).out # "ok" THEN Raise(f, Decoded(r).out)
                      ELSE IF f.op = "pop"
                          THEN [f EXCEPT !.got = Decoded(r).ret, !.pc = "del_in"]
                      ELSE [Return(f) EXCEPT !.ret = Decoded(r).ret] : r \in b.rows}
           [] f.pc = "contains" -> {[Return(f) EXCEPT !.flag = b.found]}
           [] f.pc = "len" -> {[Return(f) EXCEPT !.n = Cardinality(b.rows)]}
           [] f.pc = "clear" -> {Return(f)}
           [] f.pc = "load" -> {[f EXCEPT !.pc = "values"]}
           [] OTHER -> {[Return(f) EXCEPT !.seq = b.seq]}

\* The call with its backend call at f.pc logged: the method, its outcome and,
\* for has_collection, its answer.
Logged(f, o, found) ==
    [f EXCEPT !.log = Append(f.log, [call |-> BackendCallAt(f.pc), out |-> o,
                                     found |-> found])]

NoCall ==
    [op |-> "none", key |-> StrKey(""), val |-> NotADict, supplied |-> FALSE,
     dflt |-> NoneVal, pairs |-> <<>>, out |-> "ok", ret |-> NoneVal,
     flag |-> FALSE, n |-> 0, pre |-> {}, preExists |-> FALSE,
     qvec |-> <<>>, topk |-> 0, thr |-> 0, limit |-> 0, seq |-> <<>>, again |-> <<>>]

Call(op) == [NoCall EXCEPT !.op = op, !.pre = records, !.preExists = exists]

Init ==
    /\ exists = FALSE
    /\ records = {}
    /\ written = FALSE
    /\ last = NoCall
    /\ pc = "idle"
    /\ todo = <<>>
    /\ run = [c \in Callers |-> Idle]
    /\ landed = RowOf("", NotADict)

\* self[key] = value, for a key of K and a value of V.
SetWith(K, V) ==
    /\ pc = "idle"
    /\ \E k \in K, v \in V :
        LET r == SetItem(exists, records, k, v)
        IN  /\ exists' = r.exists
            /\ records' = r.records
            /\ written' = (written \/ r.out = "ok")
            /\ last' = [Call("set") EXCEPT !.key = k, !.val = v, !.out = r.out]
    /\ UNCHANGED <<pc, todo>>
    /\ UNCHANGED <<run, landed>>

SetOp == SetWith(Keys, Values)

GetOp ==
    /\ pc = "idle"
    /\ \E k \in Keys : \E g \in GetItem(exists, records, Str(k)) :
        last' = [Call("get") EXCEPT !.key = k, !.out = g.out, !.ret = g.ret]
    /\ UNCHANGED <<exists, records, written, pc, todo>>
    /\ UNCHANGED <<run, landed>>

GetOrDefaultOp ==
    /\ pc = "idle"
    /\ \E k \in Keys, da \in Defaults :
        \E g \in GetOrDefault(exists, records, Str(k), Effective(da)) :
            last' = [Call("getOrDefault") EXCEPT !.key = k, !.supplied = da[1],
                        !.dflt = da[2], !.out = g.out, !.ret = g.ret]
    /\ UNCHANGED <<exists, records, written, pc, todo>>
    /\ UNCHANGED <<run, landed>>

DeleteOp ==
    /\ pc = "idle"
    /\ \E k \in Keys :
        LET d == DelItem(exists, records, Str(k))
        IN  /\ records' = d.records
            /\ last' = [Call("delete") EXCEPT !.key = k, !.out = d.out]
    /\ UNCHANGED <<exists, written, pc, todo>>
    /\ UNCHANGED <<run, landed>>

ContainsOp ==
    /\ pc = "idle"
    /\ \E k \in Keys :
        LET c == Contains(exists, records, Str(k))
        IN  last' = [Call("contains") EXCEPT !.key = k, !.out = c.out, !.flag = c.flag]
    /\ UNCHANGED <<exists, records, written, pc, todo>>
    /\ UNCHANGED <<run, landed>>

LenOp ==
    /\ pc = "idle"
    /\ LET l == LenItems(exists, records)
       IN  last' = [Call("len") EXCEPT !.out = l.out, !.n = l.n]
    /\ UNCHANGED <<exists, records, written, pc, todo>>
    /\ UNCHANGED <<run, landed>>

ClearOp ==
    /\ pc = "idle"
    /\ LET d == ClearAll(exists, records)
       IN  /\ records' = d.records
           /\ last' = [Call("clear") EXCEPT !.out = d.out]
    /\ UNCHANGED <<exists, written, pc, todo>>
    /\ UNCHANGED <<run, landed>>

PopOp ==
    /\ pc = "idle"
    /\ \E k \in Keys, da \in Defaults :
        \E r \in Pop(exists, records, Str(k), Effective(da)) :
            /\ records' = r.records
            /\ last' = [Call("pop") EXCEPT !.key = k, !.supplied = da[1],
                           !.dflt = da[2], !.out = r.out, !.ret = r.ret]
    /\ UNCHANGED <<exists, written, pc, todo>>
    /\ UNCHANGED <<run, landed>>

\* The top_k and threshold arguments of get_by_vector: passed or defaulted.
TopKs == {<<FALSE, DefaultTopK>>, <<TRUE, 1>>, <<TRUE, 2>>}
Thresholds == {<<FALSE, DefaultThreshold>>, <<TRUE, 0 - 1>>, <<TRUE, 1>>, <<TRUE, 2>>}

SearchOp ==
    /\ pc = "idle"
    /\ \E q \in QueryVectors, ka \in TopKs, ta \in Thresholds :
        \E g \in GetByVector(exists, records, q, ka[2], ta[2]) :
            last' = [Call("search") EXCEPT !.qvec = q, !.topk = ka[2], !.thr = ta[2],
                        !.supplied = ta[1], !.out = g.out, !.seq = g.seq]
    /\ UNCHANGED <<exists, records, written, pc, todo>>
    /\ UNCHANGED <<run, landed>>

\* update: the call starts its loop over the pairs.
UpdateBegin ==
    /\ pc = "idle"
    /\ \E ps \in SeqsUpTo(UpdatePairs, MaxPairs) :
        /\ todo' = ps
        /\ last' = [Call("update") EXCEPT !.pairs = ps, !.out = "running"]
    /\ pc' = "update"
    /\ UNCHANGED <<exists, records, written>>
    /\ UNCHANGED <<run, landed>>

\* update, with a failed assignment skipped instead of raised.
UpdateStepSkipFailure ==
    /\ pc = "update"
    /\ todo # <<>>
    /\ LET r == SetItem(exists, records, Head(todo).key, Head(todo).val)
       IN  /\ exists' = r.exists
           /\ records' = r.records
           /\ written' = (written \/ r.out = "ok")
           /\ todo' = Tail(todo)
           /\ UNCHANGED <<last, pc>>
    /\ UNCHANGED <<run, landed>>

\* update: one turn of the loop, self[key] = value; an exception ends the call.
UpdateStep ==
    /\ pc = "update"
    /\ todo # <<>>
    /\ LET r == SetItem(exists, records, Head(todo).key, Head(todo).val)
       IN  /\ exists' = r.exists
           /\ records' = r.records
           /\ written' = (written \/ r.out = "ok")
           /\ IF r.out = "ok"
                THEN /\ todo' = Tail(todo)
                     /\ UNCHANGED <<last, pc>>
                ELSE /\ todo' = <<>>
                     /\ last' = [last EXCEPT !.out = r.out]
                     /\ pc' = "idle"
    /\ UNCHANGED <<run, landed>>

\* update: the pairs are exhausted and the call returns.
UpdateEnd ==
    /\ pc = "update"
    /\ todo = <<>>
    /\ last' = [last EXCEPT !.out = "ok"]
    /\ pc' = "idle"
    /\ UNCHANGED <<exists, records, written, todo>>
    /\ UNCHANGED <<run, landed>>

Next ==
    \/ SetOp
    \/ GetOp
    \/ GetOrDefaultOp
    \/ DeleteOp
    \/ ContainsOp
    \/ LenOp
    \/ ClearOp
    \/ PopOp
    \/ UpdateBegin
    \/ UpdateStep
    \/ UpdateEnd

Spec == Init /\ [][Next]_vars

(***************************************************************************)
(* The scans and the similarity search, over the stores that valid         *)
(* assignments, deletes and clear build.                                   *)
(***************************************************************************)

\* The limit argument of keys: passed or defaulted.
Limits == {<<FALSE, DefaultLimit>>, <<TRUE, 1>>, <<TRUE, 2>>}

ValidValues == {DictValue(p, e) : p \in Payloads, e \in Embeddings}

SetValidOp == SetWith(Keys, ValidValues)

\* keys(limit), traversed twice by the caller.
KeysOp ==
    /\ pc = "idle"
    /\ \E la \in Limits : \E g \in KeysOf(exists, records, la[2]) :
        LET first == Traverse(g.gen)
            second == Traverse(first.gen)
        IN  last' = [Call("keys") EXCEPT !.limit = la[2], !.supplied = la[1],
                        !.out = g.out, !.seq = first.items, !.again = second.items]
    /\ UNCHANGED <<exists, records, written, pc, todo>>
    /\ UNCHANGED <<run, landed>>

\* values(), traversed once.
ValuesOp ==
    /\ pc = "idle"
    /\ \E g \in ValuesOf(exists, records) :
        last' = [Call("values") EXCEPT !.out = g.out, !.seq = Traverse(g.gen).items]
    /\ UNCHANGED <<exists, records, written, pc, todo>>
    /\ UNCHANGED <<run, landed>>

\* items(), traversed once.
ItemsOp ==
    /\ pc = "idle"
    /\ \E g \in ItemsOf(exists, records) :
        last' = [Call("items") EXCEPT !.out = g.out, !.seq = Traverse(g.gen).items]
    /\ UNCHANGED <<exists, records, written, pc, todo>>
    /\ UNCHANGED <<run, landed>>

NextRead ==
    \/ SetValidOp
    \/ DeleteOp
    \/ ClearOp
    \/ KeysOp
    \/ ValuesOp
    \/ ItemsOp
    \/ SearchOp

SpecRead == Init /\ [][NextRead]_vars

(***************************************************************************)
(* The callers of the step-by-step view.                                   *)
(***************************************************************************)

\* A call as it starts: at its first backend call.
Start(op, ks, v, d, q, rest) ==
    [Idle EXCEPT !.op = op, !.key = ks, !.val = v, !.dflt = d, !.q = q,
                 !.rest = rest, !.pc = Entry(op)]

\* update(other): the first pair is assigned first; no pair, no backend call.
StartUpdate(ps) ==
    IF ps = <<>> THEN Return([Idle EXCEPT !.op = "update"])
    ELSE Start("update", Str(Head(ps).key), Head(ps).val, NoneVal, <<>>, Tail(ps))

\* One backend call of caller c's handler, with the handler's code up to its
\* next backend call, its return or its exception.
BackendStep(c) ==
    /\ run[c].pc \in CallLabels
    /\ \E b \in Backend(run[c], exists, records) :
        /\ exists' = b.exists
        /\ records' = b.records
        /\ written' = (written \/ (run[c].pc = "insert" /\ b.out = "ok"))
        /\ landed' = IF run[c].pc = "insert" /\ b.out = "ok"
                         THEN RowOf(run[c].key, run[c].val) ELSE landed
        /\ \E g \in After(Logged(run[c], b.out, b.found), b) : run' = [run EXCEPT ![c] = g]
    /\ UNCHANGED <<last, pc, todo>>

\* The caller takes the outcome of its call and is free for the next one.
Finish(c) ==
    /\ run[c].pc = "done"
    /\ run' = [run EXCEPT ![c] = Idle]
    /\ UNCHANGED <<exists, records, written, last, pc, todo, landed>>

(***************************************************************************)
(* Two callers assigning at the same time.                                 *)
(***************************************************************************)

ConcKeys == {StrKey("1"), StrKey("b")}
ConcValues == {DictValue("p", Unit(1)), DictValue("q", Unit(1))}

\* A caller starts self[key] = value.
ConcSet ==
    /\ \E c \in Callers, k \in ConcKeys, v \in ConcValues :
        /\ run[c].pc = "idle"
        /\ run' = [run EXCEPT ![c] = Start("set", Str(k), v, NoneVal, <<>>, <<>>)]
    /\ UNCHANGED <<exists, records, written, last, pc, todo, landed>>

ConcStep == \E c \in Callers : BackendStep(c)

ConcFinish == \E c \in Callers : Finish(c)

NextConc ==
    \/ ConcSet
    \/ ConcStep
    \/ ConcFinish

SpecConc == Init /\ [][NextConc]_vars

(***************************************************************************)
(* One caller, over a backend whose calls can fail.                        *)
(***************************************************************************)

StepKeys == {IntKey(1), StrKey("b")}
StepValues ==
    {DictValue("p", Unit(1)), DictValue("q", Unit(2)), DictValue("p", ShortEmbedding),
     NotADict}

\* The calls the caller makes.
StepCalls ==
    {Start("set", Str(k), v, NoneVal, <<>>, <<>>) : k \in StepKeys, v \in StepValues}
        \cup {StartUpdate(ps) : ps \in SeqsUpTo(UpdatePairs, MaxPairs)}
        \cup {Start(op, Str(k), NotADict, NoneVal, <<>>, <<>>) :
                op \in {"get", "delete", "contains"}, k \in StepKeys}
        \cup {Start(op, Str(k), NotADict, Effective(da), <<>>, <<>>) :
                op \in {"getOrDefault", "pop"}, k \in StepKeys, da \in Defaults}
        \cup {Start(op, "", NotADict, NoneVal, <<>>, <<>>) :
                op \in {"len", "clear", "keys", "values", "items"}}
        \cup {Start("search", "", NotADict, NoneVal, q, <<>>) : q \in QueryVectors}

\* The caller starts a call.
StepCall ==
    /\ run[1].pc = "idle"
    /\ \E f \in StepCalls : run' = [run EXCEPT ![1] = f]
    /\ UNCHANGED <<exists, records, written, last, pc, todo, landed>>

\* The backend call the handler issues is answered.
StepBackend == BackendStep(1)

\* The backend call the handler issues fails in the connector or the server:
\* the client raises and the store is as it was.
StepBackendFails ==
    /\ run[1].pc \in CallLabels
    /\ run' = [run EXCEPT ![1] = Raise(Logged(run[1], "MilvusException", FALSE), "MilvusException")]
    /\ UNCHANGED <<exists, records, written, last, pc, todo, landed>>

StepFinish == Finish(1)

NextFail ==
    \/ StepCall
    \/ StepBackend
    \/ StepBackendFails
    \/ StepFinish

SpecFail == Init /\ [][NextFail]_vars

(***************************************************************************)
(* The claims.  The spec's error kinds are the exceptions of the code:     *)
(* KeyNotFound is KeyError, InvalidValue is ValueError, and a failure of   *)
(* the backend is MilvusException.                                         *)
(***************************************************************************)

\* The stored rows of a key string.
RowsOf(recs, ks) == {r \in recs : r.key = ks}

\* The row a successful set(key, value) writes.
RowWritten(key, value) ==
    [key |-> Str(key), value |-> B64Encode(PickleDumps(value.value)),
     embedding |-> value.embedding]

KeyNotFound == [out |-> "KeyError", ret |-> NoneVal]

\* The last call has returned (update is no longer in its loop).
Returned(op) == last.op = op /\ pc = "idle"

C3_InvalidEmbeddingWritesNothing ==
    (Returned("set") /\ last.val.isDict /\ last.val.value \in Payloads
        /\ (last.val.embNone \/ Len(last.val.embedding) # Dim))
        => /\ last.out # "ok"
           /\ records = last.pre
           /\ (RowsOf(last.pre, Str(last.key)) = {}
                  => GetItem(exists, records, Str(last.key)) = {KeyNotFound})
           /\ \A r \in RowsOf(last.pre, Str(last.key)) :
                 GetItem(exists, records, Str(last.key)) = {Decoded(r)}

\* C4: delete(key) of a key with a record succeeds and a get(key) then fails
\* with KeyNotFound; delete(key) of a key without a record fails with
\* KeyNotFound and leaves the records as they were.
C4_Delete ==
    Returned("delete")
        => IF RowsOf(last.pre, Str(last.key)) # {}
              THEN /\ last.out = "ok"
                   /\ GetItem(exists, records, Str(last.key)) = {KeyNotFound}
              ELSE /\ last.out = "KeyError"
                   /\ records = last.pre
                   /\ DelItem(exists, records, Str(last.key)).out = "KeyError"

\* C5: get(key) of a key without a record fails with KeyNotFound, and
\* getOrDefault(key, default) returns the default; neither changes the store.
C5_NotFound ==
    /\ (Returned("get") /\ RowsOf(last.pre, Str(last.key)) = {})
        => /\ last.out = "KeyError"
           /\ records = last.pre
           /\ exists = last.preExists
    /\ (Returned("getOrDefault") /\ RowsOf(last.pre, Str(last.key)) = {})
        => /\ last.out = "ok"
           /\ last.ret = (IF last.supplied THEN last.dflt ELSE NoneVal)
           /\ records = last.pre
           /\ exists = last.preExists

\* C6: a read made while the collection does not exist behaves as "not
\* found": get fails with KeyNotFound, getOrDefault returns the default and
\* contains is false.  (Stated for the exact-key reads.)
C6_ReadsBeforeCreation ==
    ~last.preExists
        => /\ Returned("get") => last.out = "KeyError"
           /\ Returned("getOrDefault")
                 => /\ last.out = "ok"
                    /\ last.ret = (IF last.supplied THEN last.dflt ELSE NoneVal)
           /\ Returned("contains") => (last.out = "ok" /\ ~last.flag)

\* C7: the collection exists only if some set has completed successfully; no
\* read creates it, and no call drops it.
C7_CreatedBySuccessfulWriteOnly ==
    /\ exists => written
    /\ last.op \in {"get", "getOrDefault", "contains", "len"}
          => exists = last.preExists
    /\ last.preExists => exists

\* C8: after clear() on an existing collection the size is 0, no key has a
\* record (contains is false and get fails with KeyNotFound for every key),
\* the collection still exists, and a valid set succeeds.
C8_ClearEmpties ==
    (Returned("clear") /\ last.preExists)
        => /\ last.out = "ok"
           /\ exists
           /\ LenItems(exists, records) = [out |-> "ok", n |-> 0]
           /\ \A k \in Keys :
                 /\ Contains(exists, records, Str(k)) = [out |-> "ok", flag |-> FALSE]
                 /\ GetItem(exists, records, Str(k)) = {KeyNotFound}
           /\ \A k \in Keys :
                 SetItem(exists, records, k, DictValue("p", Unit(1))).out = "ok"

\* set applied to the pairs in order, stopping at the first that fails.
RECURSIVE SetsInOrder(_, _, _)
SetsInOrder(ex, recs, ps) ==
    IF ps = <<>> THEN [out |-> "ok", exists |-> ex, records |-> recs]
    ELSE LET r == SetItem(ex, recs, Head(ps).key, Head(ps).val)
         IN  IF r.out # "ok" THEN r
             ELSE SetsInOrder(r.exists, r.records, Tail(ps))

\* C9: update(pairs) ends with the outcome and in the store that calling set
\* on each pair in order, stopping at the first set that fails, ends with.
C9_UpdateIsSequentialSets ==
    Returned("update")
        => LET e == SetsInOrder(last.preExists, last.pre, last.pairs)
           IN  /\ last.out = e.out
               /\ exists = e.exists
               /\ records = e.records

\* An update of two pairs failed at the second with the first one applied.
C9_Witness ==
    /\ Returned("update")
    /\ Len(last.pairs) = 2
    /\ last.out # "ok"
    /\ RowWritten(last.pairs[1].key, last.pairs[1].val) \in records
    /\ RowWritten(last.pairs[1].key, last.pairs[1].val) \notin last.pre

\* C10: pop(key, default) of a key with a record returns its payload and
\* removes that record alone; of a key without a record it returns the default
\* when one was passed and fails with KeyNotFound otherwise, the records
\* unchanged.  (Stated for calls made once the collection exists.)
C10_Pop ==
    (Returned("pop") /\ last.preExists)
        => IF RowsOf(last.pre, Str(last.key)) # {}
              THEN /\ last.out = "ok"
                   /\ \E r \in RowsOf(last.pre, Str(last.key)) :
                         /\ last.ret = Decoded(r).ret
                         /\ records = last.pre \ {r}
                   /\ GetItem(exists, records, Str(last.key)) = {KeyNotFound}
              ELSE /\ records = last.pre
                   /\ IF last.supplied
                         THEN last.out = "ok" /\ last.ret = last.dflt
                         ELSE last.out = "KeyError"

\* The rows of a store that score at least the threshold against a query.
Qualifying(recs, q, threshold) ==
    {r \in recs : Score(r.embedding, q) >= threshold}

\* C11: get_by_vector(q, top_k, threshold) returns, best first, the rows among
\* the top_k best whose score is at least the threshold: at most top_k
\* entries, as many as qualify up to top_k, scores non-increasing, each a
\* live key with its stored payload and its score, none twice, and no row
\* left out scores higher than one returned; the result is empty when no row
\* qualifies or the store holds none.
C11_SearchTopKAboveThreshold ==
    Returned("search")
        => /\ last.out = "ok"
           /\ Len(last.seq) <= last.topk
           /\ Len(last.seq)
                = Min(last.topk, Cardinality(Qualifying(last.pre, last.qvec, last.thr)))
           /\ \A i \in 1..(Len(last.seq) - 1) :
                 last.seq[i].distance >= last.seq[i + 1].distance
           /\ \A i \in 1..Len(last.seq) :
                 \E r \in Qualifying(last.pre, last.qvec, last.thr) :
                     /\ r.key = last.seq[i].key
                     /\ Decoded(r) = [out |-> "ok", ret |-> last.seq[i].value]
                     /\ Score(r.embedding, last.qvec) = last.seq[i].distance
           /\ \A i \in 1..Len(last.seq), j \in 1..Len(last.seq) :
                 last.seq[i].key = last.seq[j].key => i = j
           /\ \A r \in last.pre : \A i \in 1..Len(last.seq) :
                 (\A j \in 1..Len(last.seq) : last.seq[j].key # r.key)
                     => Score(r.embedding, last.qvec) <= last.seq[i].distance

\* C12: called without a threshold, get_by_vector returns every one of the
\* top_k best rows, min(top_k, number of rows) of them, whatever their scores.
\* (Stated for calls made once the collection exists.)
C12_DefaultThresholdKeepsAll ==
    (Returned("search") /\ ~last.supplied /\ last.preExists)
        => /\ last.out = "ok"
           /\ Len(last.seq) = Min(last.topk, Cardinality(last.pre))

\* The key strings of the model.
KeyStrs == {Str(k) : k \in Keys}

\* C13: two concurrent set calls on the same key: in every interleaving of
\* their backend steps the key never has more than one live record, and once
\* both calls have returned the collection holds exactly one record for the
\* key, the one whose insert landed last.
C13_ConcurrentSetsOneRecord ==
    \A ks \in {Str(k) : k \in ConcKeys} :
        /\ Cardinality(RowsOf(records, ks)) <= 1
        /\ (\A c \in Callers : run[c].op = "set" /\ run[c].key = ks /\ run[c].pc = "done")
               => RowsOf(records, ks) = {landed}

\* C14: _create_collection run by two callers at once: no create_collection
\* call fails (one that finds the collection already there counts as
\* success), so no set fails because of the other caller's creation; a set
\* that has returned leaves the collection created; and when has_collection
\* answers that the collection exists, no create_collection follows.
C14_EnsureCollectionConcurrent ==
    \A c \in Callers :
        LET f == run[c]
        IN  /\ \A i \in 1..Len(f.log) :
                    /\ f.log[i].call = "create_collection" => f.log[i].out = "ok"
                    /\ (f.log[i].call = "has_collection" /\ f.log[i].found /\ i < Len(f.log))
                           => f.log[i + 1].call # "create_collection"
            /\ (f.op = "set" /\ f.pc = "done") => exists

\* C15: between calls, size() is the number of keys for which contains is
\* true, and contains(k) is true iff k has a live record.  (Stated for stores
\* whose collection exists.)
C15_SizeCountsContainedKeys ==
    (pc = "idle" /\ exists)
        => /\ LenItems(exists, records)
                = [out |-> "ok",
                   n |-> Cardinality({ks \in KeyStrs : Contains(exists, records, ks).flag})]
           /\ \A ks \in KeyStrs :
                 Contains(exists, records, ks)
                     = [out |-> "ok", flag |-> RowsOf(records, ks) # {}]

\* C16: keys(limit) yields at most limit keys, each the key of a live record,
\* none twice, and a second traversal of what it returned yields the same keys.
\* (Stated for calls made once the collection exists.)
C16_KeysBoundedRestartable ==
    (Returned("keys") /\ last.preExists)
        => /\ last.out = "ok"
           /\ Len(last.seq) <= last.limit
           /\ \A i \in 1..Len(last.seq) : RowsOf(last.pre, last.seq[i]) # {}
           /\ \A i \in 1..Len(last.seq), j \in 1..Len(last.seq) :
                 last.seq[i] = last.seq[j] => i = j
           /\ last.again = last.seq

\* C17: items() yields one (key, payload) pair for each live record and
\* nothing else, and values() the payloads of the same records.  (Stated for
\* calls made once the collection exists, and for values() when it returns.)
C17_FullScans ==
    /\ (Returned("items") /\ last.preExists)
        => /\ last.out = "ok"
           /\ Len(last.seq) = Cardinality(last.pre)
           /\ {last.seq[i] : i \in 1..Len(last.seq)}
                = {<<r.key, Decoded(r).ret>> : r \in last.pre}
    /\ (Returned("values") /\ last.preExists /\ last.out = "ok")
        => /\ Len(last.seq) = Cardinality(last.pre)
           /\ \A p \in Payloads :
                 Cardinality({i \in 1..Len(last.seq) : last.seq[i] = <<p>>})
                     = Cardinality({r \in last.pre : Decoded(r).ret = p})

\* C18: a backend call that fails is the last backend call of its operation
\* (no further call, no repeat of the failed one) and the operation ends with
\* that failure; an operation that returns normally although an exception
\* was raised inside it is get or pop returning its default on KeyError.
C18_NoRetryNoRecovery ==
    \A c \in Callers :
        LET f == run[c]
        IN  /\ \A i \in 1..Len(f.log) :
                    f.log[i].out # "ok"
                        => i = Len(f.log) /\ f.pc = "done" /\ f.out = f.log[i].out
            /\ (f.pc = "done" /\ f.raised # "none" /\ f.out = "ok")
                   => /\ f.raised = "KeyError"
                      /\ f.op \in {"getOrDefault", "pop"}
                      /\ f.ret = f.dflt
                      /\ (f.op = "pop" => f.dflt # NoneVal)

\* pop(key, "d") found the key, its delete failed in the backend, and the
\* caller got the failure, not the default.
C18_Witness ==
    /\ run[1].op = "pop"
    /\ run[1].pc = "done"
    /\ run[1].dflt # NoneVal
    /\ Len(run[1].log) = 3
    /\ run[1].log[3].call = "delete"
    /\ run[1].out = "MilvusException"

\* C19: pop of a key without a record fails with KeyNotFound when the default
\* is None, passed or not, and returns the default when it is not None.
C19_PopNoneIsNoDefault ==
    (Returned("pop") /\ RowsOf(last.pre, Str(last.key)) = {})
        => IF last.supplied /\ last.dflt # NoneVal
              THEN last.out = "ok" /\ last.ret = last.dflt
              ELSE last.out = "KeyError"

====
